---- MODULE Spec2Model ----
(***************************************************************************)
(* CAD-to-toolpath pipeline of the wood panel cutting machine: the DXF     *)
(* analyzer (DXFAnalyzer), the G-code generator (GCodeGenerator) and the   *)
(* part of the /api/generate handler that drives them for one document.    *)
(*                                                                         *)
(* Lengths are integers in tenths of a millimetre (Scale units per mm), so *)
(* that the strict and inclusive limits of the filter and the one-decimal  *)
(* rendering of the generator are both exercised.                          *)
(***************************************************************************)
EXTENDS Integers, Sequences, FiniteSets, TLC

VARIABLES
    pc,         \* position of the request handler
    doc,        \* the modelspace of the document being read, as iterated so far
    entities,   \* DXFAnalyzer.entities
    polylines,  \* DXFAnalyzer.polylines
    circles,    \* DXFAnalyzer.circles
    texts,      \* DXFAnalyzer.texts
    analysis,   \* the value analyze_file returned
    params,     \* GCodeGenerator.params
    lines,      \* the instruction lines built by the last generator call
    outfile,    \* the lines present in the output file, or NoFile
    result,     \* the value generate_gcode returned
    call,       \* the arguments of a direct call of generate_cut_polyline
    log,        \* history: every update_params and generate_gcode call made
    dxf_files,  \* /api/generate: the documents of the request, in order
    cur,        \* /api/generate: position of the loop in dxf_files
    results,    \* /api/generate: the results list
    outdir,     \* OUTPUT_PATH: the file stored under each output name
    fh,         \* generate_gcode: the open output file and its write position
    tid,        \* the request whose handler is running
    other       \* the local state of the request that is not running

vars == <<pc, doc, entities, polylines, circles, texts, analysis, params,
          lines, outfile, result, call, log, dxf_files, cur, results, outdir,
          fh, tid, other>>

\* the state of the batch loop, and the state only concurrent requests use
batchvars == <<dxf_files, cur, results, outdir>>
threadvars == <<fh, tid, other>>

\* ------------------------------------------------------------------ bounds

Scale == 10
MaxEntities == 5
MaxCanonPolylines == 2
MaxCanonCircles == 4
MaxCutPoints == 3

\* --------------------------------------------------------- program constants

max_x == 2500
max_y == 3000
SheetWidth == 1000
SheetHeight == 2000
MinPartSize == 50
MinRadius == 5
MaxRadius == 50
MaxPolylines == 2
MaxCircles == 4
DrillTool == 2
CutterTool == 1
PlungeFeed == 3000
ParkX == 100
ParkY == 2850

\* the output file before anything was written to it
NoFile == [exists |-> FALSE, content |-> <<>>]

\* the names generate_gcode can write under OUTPUT_PATH, and the empty directory
OutputNames == {"a.nc", "b.nc", "bad.nc", "torn.nc"}
NoFiles == [n \in OutputNames |-> NoFile]

\* ------------------------------------------------------------ small helpers

RECURSIVE SeqMax(_), SeqMin(_)
SeqMax(s) ==
    IF Len(s) = 1 THEN s[1]
    ELSE LET m == SeqMax(Tail(s)) IN IF s[1] > m THEN s[1] ELSE m

SeqMin(s) ==
    IF Len(s) = 1 THEN s[1]
    ELSE LET m == SeqMin(Tail(s)) IN IF s[1] < m THEN s[1] ELSE m

RECURSIVE Flatten(_)
Flatten(ss) == IF ss = <<>> THEN <<>> ELSE Head(ss) \o Flatten(Tail(ss))

\* ------------------------------------------------------------- DXFAnalyzer

\* a variant in which the far edges of the table are not part of it
is_valid_coordinate_exclusive(x, y) ==
    0 <= x /\ x < max_x * Scale /\ 0 <= y /\ y < max_y * Scale

is_valid_coordinate(x, y) ==
    0 <= x /\ x <= max_x * Scale /\ 0 <= y /\ y <= max_y * Scale

\* the points of an LWPOLYLINE that analyze_file keeps
ValidPoints(pts) == SelectSeq(pts, LAMBDA p : is_valid_coordinate(p[1], p[2]))

BoxWidth(points) ==
    SeqMax([i \in 1..Len(points) |-> points[i][1]])
    - SeqMin([i \in 1..Len(points) |-> points[i][1]])

BoxHeight(points) ==
    SeqMax([i \in 1..Len(points) |-> points[i][2]])
    - SeqMin([i \in 1..Len(points) |-> points[i][2]])

\* a variant of the LWPOLYLINE branch's condition: the minimum part size
\* compared with >= instead of >
PolylineAcceptedInclusive(points, count) ==
    /\ Len(points) >= 3
    /\ ~(BoxWidth(points) > SheetWidth * Scale /\ BoxHeight(points) > SheetHeight * Scale)
    /\ (BoxWidth(points) >= MinPartSize * Scale /\ BoxHeight(points) >= MinPartSize * Scale)
    /\ count < MaxPolylines

\* the LWPOLYLINE branch's condition for appending, on the kept points and
\* the number of polylines appended so far
PolylineAccepted(points, count) ==
    /\ Len(points) >= 3
    /\ ~(BoxWidth(points) > SheetWidth * Scale /\ BoxHeight(points) > SheetHeight * Scale)
    /\ (BoxWidth(points) > MinPartSize * Scale /\ BoxHeight(points) > MinPartSize * Scale)
    /\ count < MaxPolylines

\* variants of the CIRCLE branch's condition: the cap left out; the cap
\* counting every circle of the document; the upper radius limit exclusive
CircleAcceptedNoCap(center, radius, count) ==
    /\ is_valid_coordinate(center[1], center[2])
    /\ MinRadius * Scale <= radius /\ radius <= MaxRadius * Scale

CircleAcceptedSeenCap(center, radius, count) ==
    /\ is_valid_coordinate(center[1], center[2])
    /\ MinRadius * Scale <= radius /\ radius <= MaxRadius * Scale
    /\ Len(SelectSeq(doc, LAMBDA d : d.type = "CIRCLE")) < MaxCircles

CircleAcceptedExclusive(center, radius, count) ==
    /\ is_valid_coordinate(center[1], center[2])
    /\ MinRadius * Scale <= radius /\ radius < MaxRadius * Scale
    /\ count < MaxCircles

\* the CIRCLE branch's condition for appending
CircleAccepted(center, radius, count) ==
    /\ is_valid_coordinate(center[1], center[2])
    /\ MinRadius * Scale <= radius /\ radius <= MaxRadius * Scale
    /\ count < MaxCircles

\* the TEXT branch's condition for appending
TextAccepted(insert) == is_valid_coordinate(insert[1], insert[2])

\* entity_info as built at the top of the loop body; "entity" is the handle
\* of the document entity, identified by its position in the modelspace
EntityInfo(e, idx) == [type |-> e.type, entity |-> idx]

PolylineInfo(e, idx) ==
    [type |-> e.type, entity |-> idx,
     points |-> ValidPoints(e.points), closed |-> e.closed,
     area |-> BoxWidth(ValidPoints(e.points)) * BoxHeight(ValidPoints(e.points))]

\* a polyline with fewer than 3 kept points gets no points/closed keys
PolylineSeenInfo(e, idx) ==
    IF Len(ValidPoints(e.points)) >= 3
    THEN [type |-> e.type, entity |-> idx,
          points |-> ValidPoints(e.points), closed |-> e.closed]
    ELSE EntityInfo(e, idx)

CircleInfo(e, idx) ==
    [type |-> e.type, entity |-> idx, center |-> e.center, radius |-> e.radius]

TextInfo(e, idx) ==
    [type |-> e.type, entity |-> idx, text |-> e.text, position |-> e.insert]

TextSeenInfo(e, idx) == [type |-> e.type, entity |-> idx, text |-> e.text]

\* self.polylines after the loop body has run on entity e
PolylinesAfter(e, idx) ==
    IF e.type = "LWPOLYLINE" /\ PolylineAccepted(ValidPoints(e.points), Len(polylines))
    THEN Append(polylines, PolylineInfo(e, idx))
    ELSE polylines

\* self.circles after the loop body has run on entity e
CirclesAfter(e, idx) ==
    IF e.type = "CIRCLE" /\ CircleAccepted(e.center, e.radius, Len(circles))
    THEN Append(circles, CircleInfo(e, idx))
    ELSE circles

\* self.texts after the loop body has run on entity e
TextsAfter(e, idx) ==
    IF e.type = "TEXT" /\ TextAccepted(e.insert)
    THEN Append(texts, TextInfo(e, idx))
    ELSE texts

\* the entity_info appended to self.entities at the end of the loop body
EntitiesAfter(e, idx) ==
    Append(entities,
        CASE e.type = "LWPOLYLINE" ->
                IF PolylineAccepted(ValidPoints(e.points), Len(polylines))
                THEN PolylineInfo(e, idx) ELSE PolylineSeenInfo(e, idx)
          [] e.type = "CIRCLE" ->
                IF CircleAccepted(e.center, e.radius, Len(circles))
                THEN CircleInfo(e, idx) ELSE EntityInfo(e, idx)
          [] e.type = "TEXT" ->
                IF TextAccepted(e.insert) THEN TextInfo(e, idx) ELSE TextSeenInfo(e, idx)
          [] OTHER -> EntityInfo(e, idx))

\* the value analyze_file returns when the loop has ended
AnalysisSummary ==
    [success |-> TRUE, total_entities |-> Len(entities),
     polylines |-> Len(polylines), circles |-> Len(circles), texts |-> Len(texts)]

AnalysisFailure == [success |-> FALSE, error |-> "exception"]

\* ----------------------------------------------------------- GCodeGenerator

\* a numeric parameter: a Python int or float, its value in tenths
IntParam(n) == [t |-> "int", v |-> n * Scale]
FloatParam(tenths) == [t |-> "float", v |-> tenths]

DefaultParams ==
    [thickness |-> IntParam(18),
     cutter_speed |-> IntParam(18000),
     drill_speed |-> IntParam(18000),
     feed_rate |-> IntParam(12000),
     safe_height |-> IntParam(48),
     cut_depth |-> IntParam(18),
     drill_depth |-> IntParam(7),
     process_order |-> "drill_first"]

\* a variant that replaces the dictionary by the overlay
update_params_replace(new_params) == new_params

\* dict.update: the keys of new_params overwrite or extend self.params
update_params(new_params) ==
    [k \in DOMAIN params \cup DOMAIN new_params |->
        IF k \in DOMAIN new_params THEN new_params[k] ELSE params[k]]

\* A rendered number is the sequence of its digit groups, split at each ".":
\* "48.0" is <<48, 0>>, "12000" is <<12000>>, "48.5.0" is <<48, 5, 0>>.

\* f"{p}" of a parameter: an int prints without a fraction, a float with one
PyStr(p) ==
    IF p.t = "int" THEN <<p.v \div Scale>> ELSE <<p.v \div Scale, p.v % Scale>>

\* f"{x:.1f}" of a number given in tenths
Fmt1(x) == <<x \div Scale, x % Scale>>

\* f"{self.params['safe_height']}.0"
SafeHeightWord == PyStr(params.safe_height) \o <<0>>

generate_header == << [k |-> "G54"] >>

\* a variant of the tool change without the tool-length compensation
generate_tool_change_short(tool_num, spindle_speed) ==
    << [k |-> "M6", T |-> tool_num],
       [k |-> "M03", S |-> PyStr(spindle_speed)],
       [k |-> "G00Z", Z |-> SafeHeightWord] >>

\* a variant of the tool change that does not start the spindle
generate_tool_change_no_spindle(tool_num, spindle_speed) ==
    << [k |-> "M6", T |-> tool_num],
       [k |-> "G43", H |-> tool_num],
       [k |-> "G00Z", Z |-> SafeHeightWord] >>

generate_tool_change(tool_num, spindle_speed) ==
    << [k |-> "M6", T |-> tool_num],
       [k |-> "M03", S |-> PyStr(spindle_speed)],
       [k |-> "G43", H |-> tool_num],
       [k |-> "G00Z", Z |-> SafeHeightWord] >>

\* a variant of the drill cycle that leaves the tool in the hole
generate_drill_hole_no_retract(x, y, depth) ==
    << [k |-> "G00XY", X |-> Fmt1(x), Y |-> Fmt1(y)],
       [k |-> "G01Z", Z |-> Fmt1(depth.v), F |-> <<PlungeFeed>>] >>

generate_drill_hole(x, y, depth) ==
    << [k |-> "G00XY", X |-> Fmt1(x), Y |-> Fmt1(y)],
       [k |-> "G01Z", Z |-> Fmt1(depth.v), F |-> <<PlungeFeed>>],
       [k |-> "G00Z", Z |-> SafeHeightWord] >>

\* a variant that closes every closed polyline, whatever its length
ClosingMoveWhenClosed(points, closed) == closed

\* the closing move of a cut cycle is emitted under this condition
ClosingMove(points, closed) == closed /\ Len(points) > 2

generate_cut_polyline(points, closed) ==
    IF Len(points) < 2 THEN <<>>
    ELSE << [k |-> "G00XY", X |-> Fmt1(points[1][1]), Y |-> Fmt1(points[1][2])],
            [k |-> "G01Z", Z |-> Fmt1(params.cut_depth.v), F |-> <<PlungeFeed>>] >>
         \o [i \in 1..(Len(points) - 1) |->
                [k |-> "G01XYF", X |-> Fmt1(points[i + 1][1]),
                 Y |-> Fmt1(points[i + 1][2]), F |-> PyStr(params.feed_rate)]]
         \o (IF ClosingMove(points, closed)
             THEN << [k |-> "G01XY", X |-> Fmt1(points[1][1]), Y |-> Fmt1(points[1][2])] >>
             ELSE <<>>)
         \o << [k |-> "G00Z", Z |-> SafeHeightWord] >>

generate_footer ==
    << [k |-> "M05"],
       [k |-> "G53", X |-> <<ParkX, 0>>, Y |-> <<ParkY, 0>>],
       [k |-> "M30"] >>

\* a variant that changes to the drill even when there is nothing to drill
DrillBlockAlways ==
    generate_tool_change(DrillTool, params.drill_speed)
    \o Flatten([i \in 1..Len(circles) |->
           generate_drill_hole(circles[i].center[1], circles[i].center[2],
                               params.drill_depth)])

\* the drilling block: emitted only when there is a circle
DrillBlock ==
    IF circles # <<>>
    THEN generate_tool_change(DrillTool, params.drill_speed)
         \o Flatten([i \in 1..Len(circles) |->
                generate_drill_hole(circles[i].center[1], circles[i].center[2],
                                    params.drill_depth)])
    ELSE <<>>

\* the cutting block: emitted only when there is a polyline
CutBlock ==
    IF polylines # <<>>
    THEN generate_tool_change(CutterTool, params.cutter_speed)
         \o Flatten([i \in 1..Len(polylines) |->
                generate_cut_polyline(polylines[i].points, polylines[i].closed)])
    ELSE <<>>

\* a variant in which the order parameter is not consulted
DrillFirstAlways == TRUE

\* a variant in which only cut_first puts the cutting block first
DrillFirstUnlessCutFirst == params.process_order # "cut_first"

\* the order of the two blocks
DrillFirst == params.process_order = "drill_first"

\* a variant in which the second branch drills at the cutter's speed
DrillBlockAfterCutWrongSpeed ==
    IF circles # <<>>
    THEN generate_tool_change(DrillTool, params.cutter_speed)
         \o Flatten([i \in 1..Len(circles) |->
                generate_drill_hole(circles[i].center[1], circles[i].center[2],
                                    params.drill_depth)])
    ELSE <<>>

\* the else branch of generate_gcode: its own copy of the cutting block ...
CutBlockFirst ==
    IF polylines # <<>>
    THEN generate_tool_change(CutterTool, params.cutter_speed)
         \o Flatten([i \in 1..Len(polylines) |->
                generate_cut_polyline(polylines[i].points, polylines[i].closed)])
    ELSE <<>>

\* ... and its own copy of the drilling block
DrillBlockAfterCut ==
    IF circles # <<>>
    THEN generate_tool_change(DrillTool, params.drill_speed)
         \o Flatten([i \in 1..Len(circles) |->
                generate_drill_hole(circles[i].center[1], circles[i].center[2],
                                    params.drill_depth)])
    ELSE <<>>

\* a variant in which the lines of the previous call are never cleared
NewLinesKeeps == lines

\* generate_gcode: lines = []
NewLines == <<>>

\* the lines generate_gcode builds before it writes them
GcodeLines ==
    NewLines
    \o generate_header
    \o (IF DrillFirst THEN DrillBlock \o CutBlock
                      ELSE CutBlockFirst \o DrillBlockAfterCut)
    \o generate_footer

\* what the file system does to the write of the program: the open fails, or
\* it succeeds and the first `written` lines reach the file
IoOutcomes(ls) ==
    {[opened |-> FALSE, written |-> 0]}
    \cup {[opened |-> TRUE, written |-> n] : n \in {1, Len(ls)}}

WriteSucceeds(io, ls) == io.opened /\ io.written = Len(ls)

\* the file after `with open(output_file, 'w') ... f.write(line + '\n')`
FileAfterWrite(io, ls) ==
    IF io.opened
    THEN [exists |-> TRUE, content |-> SubSeq(ls, 1, io.written)]
    ELSE outfile

GcodeResult(io, ls) ==
    IF WriteSucceeds(io, ls)
    THEN [success |-> TRUE, lines_count |-> Len(ls)]
    ELSE [success |-> FALSE, error |-> "IOError"]

\* ------------------------------------------------------------------ documents

Pt(x, y) == <<x * Scale, y * Scale>>

\* Scenario A's part: a closed 100 x 100 square
Square ==
    [type |-> "LWPOLYLINE", closed |-> TRUE,
     points |-> <<Pt(0, 0), Pt(100, 0), Pt(100, 100), Pt(0, 100)>>]

\* a polyline left with 2 points once its out-of-envelope vertices are dropped
TwoLeft ==
    [type |-> "LWPOLYLINE", closed |-> TRUE,
     points |-> <<Pt(0, 0), Pt(100, 0), <<-1, 100 * Scale>>, <<0, max_y * Scale + 1>> >>]

\* a machinable triangle with one more vertex outside the envelope
OutVertex ==
    [type |-> "LWPOLYLINE", closed |-> FALSE,
     points |-> <<Pt(0, 0), Pt(100, 0), Pt(100, 100), <<-1, 100 * Scale>> >>]

\* Scenario A's hole
Hole == [type |-> "CIRCLE", center |-> Pt(100, 200), radius |-> 10 * Scale]

\* a hole just too small to drill
TinyHole == [type |-> "CIRCLE", center |-> Pt(300, 200), radius |-> MinRadius * Scale - 1]

Label == [type |-> "TEXT", text |-> "A1", insert |-> Pt(10, 10)]

Line == [type |-> "LINE"]

\* the entities the documents of Spec are made of
Entities == {Square, TwoLeft, Hole, TinyHole, Label, Line}

\* the parameter overlays a request of Spec may carry
Overlays == { [process_order |-> "cut_first"] }

\* the points and radii the single-entity documents of SpecUnit are made of
UnitPoints ==
    { <<0, 0>>, <<300, 300>>, <<500, 501>>, <<501, 500>>, <<501, 501>>,
      <<10000, 20001>>, <<10001, 20000>>, <<10001, 20001>>, <<15000, 25000>>,
      <<max_x * Scale, max_y * Scale>>,
      <<-1, 0>>, <<max_x * Scale + 1, 0>>, <<0, max_y * Scale + 1>> }

UnitRadii ==
    { 0, MinRadius * Scale - 1, MinRadius * Scale, 10 * Scale,
      MaxRadius * Scale, MaxRadius * Scale + 1 }

UnitCenters ==
    { <<0, 0>>, <<1000, 2000>>, <<max_x * Scale, max_y * Scale>>,
      <<-1, 0>>, <<0, -1>>, <<max_x * Scale + 1, 0>>, <<0, max_y * Scale + 1>> }

UnitPolylines ==
    { [type |-> "LWPOLYLINE", closed |-> c, points |-> pts] :
        c \in BOOLEAN,
        pts \in UNION { [1..n -> UnitPoints] : n \in 1..3 } }

UnitCircles ==
    { [type |-> "CIRCLE", center |-> c, radius |-> r] :
        c \in UnitCenters, r \in UnitRadii }

UnitTexts ==
    { [type |-> "TEXT", text |-> "A1", insert |-> c] : c \in UnitCenters }

UnitEntities ==
    UnitPolylines \cup UnitCircles \cup UnitTexts \cup {Square, OutVertex, Hole, Line}

UnitOverlays ==
    { [process_order |-> "cut_first"],
      [drill_depth |-> IntParam(18)],
      [feed_rate |-> IntParam(8000), cutter_speed |-> IntParam(24000)] }

\* a document of SpecUnit starts with squares only or with holes only
IsCanon(d) ==
    \/ Len(d) <= MaxCanonPolylines /\ \A i \in 1..Len(d) : d[i] = Square
    \/ Len(d) <= MaxCanonCircles /\ \A i \in 1..Len(d) : d[i] = Hole

CutPointSeqs == UNION { [1..n -> {Pt(0, 0), Pt(100, 0), Pt(100, 100)}] : n \in 0..MaxCutPoints }

\* -------------------------------------------------------------------- actions

NoAnalysis == [success |-> FALSE, error |-> "not run"]
NoResult == [success |-> FALSE, error |-> "not run"]
NoCall == [points |-> <<>>, closed |-> FALSE]
NoHandle == [open |-> FALSE, name |-> "", pos |-> 0]
NoOther == [pc |-> "none"]

\* the history entry of an update_params call
UpdateCall(new_params) ==
    [op |-> "update_params", tid |-> tid, new_params |-> new_params]

\* the history entry of a generate_gcode call: what it read and what it built
GenerateCall(ls) ==
    [op |-> "generate_gcode", tid |-> tid, circles |-> circles,
     polylines |-> polylines, params |-> params, lines |-> ls]

\* a variant of analyze_file that leaves a list as the last document left it
ResetKeeps(list) == list

\* analyze_file: self.entities = [], self.polylines = [], ...
Reset(list) == <<>>

Init ==
    /\ pc = "idle"
    /\ doc = <<>>
    /\ entities = <<>>
    /\ polylines = <<>>
    /\ circles = <<>>
    /\ texts = <<>>
    /\ analysis = NoAnalysis
    /\ params = DefaultParams
    /\ lines = <<>>
    /\ outfile = NoFile
    /\ result = NoResult
    /\ call = NoCall
    /\ log = <<>>
    /\ dxf_files = <<>>
    /\ cur = 0
    /\ results = <<>>
    /\ outdir = NoFiles
    /\ fh = NoHandle
    /\ tid = 1
    /\ other = NoOther

\* /api/generate: gcode_generator.update_params(data['params'])
UpdateParams(new_params) ==
    /\ pc = "idle"
    /\ pc' = "configured"
    /\ params' = update_params(new_params)
    /\ log' = Append(log, UpdateCall(new_params))
    /\ UNCHANGED <<doc, entities, polylines, circles, texts, analysis, lines,
                   outfile, result, call>>
    /\ UNCHANGED <<batchvars, threadvars>>

\* analyze_file: the document opens and the four lists are reset
ReadFile ==
    /\ pc \in {"idle", "configured"}
    /\ pc' = "analyzing"
    /\ doc' = <<>>
    /\ entities' = Reset(entities)
    /\ polylines' = Reset(polylines)
    /\ circles' = Reset(circles)
    /\ texts' = Reset(texts)
    /\ UNCHANGED <<analysis, params, lines, outfile, result, call>>
    /\ UNCHANGED <<log, batchvars, threadvars>>

\* analyze_file: ezdxf.readfile raises; the handler records the failure
ReadFileFails ==
    /\ pc \in {"idle", "configured"}
    /\ pc' = "failed"
    /\ analysis' = AnalysisFailure
    /\ result' = [success |-> FALSE, error |-> "analysis failed"]
    /\ UNCHANGED <<doc, entities, polylines, circles, texts, params, lines,
                   outfile, call>>
    /\ UNCHANGED <<log, batchvars, threadvars>>

\* analyze_file: one pass of the loop body, on the next entity e
AnalyzeStep(e) ==
    /\ pc = "analyzing"
    /\ doc' = Append(doc, e)
    /\ polylines' = PolylinesAfter(e, Len(doc) + 1)
    /\ circles' = CirclesAfter(e, Len(doc) + 1)
    /\ texts' = TextsAfter(e, Len(doc) + 1)
    /\ entities' = EntitiesAfter(e, Len(doc) + 1)
    /\ UNCHANGED <<pc, analysis, params, lines, outfile, result, call>>
    /\ UNCHANGED <<log, batchvars, threadvars>>

AnalyzeEntity == Len(doc) < MaxEntities /\ \E e \in Entities : AnalyzeStep(e)

UnitAnalyzeEntity == IsCanon(doc) /\ \E e \in UnitEntities : AnalyzeStep(e)

\* analyze_file: the iteration raises; the handler records the failure
AnalyzeRaises ==
    /\ pc = "analyzing"
    /\ pc' = "failed"
    /\ analysis' = AnalysisFailure
    /\ result' = [success |-> FALSE, error |-> "analysis failed"]
    /\ UNCHANGED <<doc, entities, polylines, circles, texts, params, lines,
                   outfile, call>>
    /\ UNCHANGED <<log, batchvars, threadvars>>

\* analyze_file: the loop ends and the counts are returned
AnalyzeReturn ==
    /\ pc = "analyzing"
    /\ pc' = "analyzed"
    /\ analysis' = AnalysisSummary
    /\ UNCHANGED <<doc, entities, polylines, circles, texts, params, lines,
                   outfile, result, call>>
    /\ UNCHANGED <<log, batchvars, threadvars>>

\* generate_gcode: build the lines, write them, return the outcome
generate_gcode(io) ==
    /\ pc = "analyzed"
    /\ pc' = "generated"
    /\ lines' = GcodeLines
    /\ outfile' = FileAfterWrite(io, GcodeLines)
    /\ result' = GcodeResult(io, GcodeLines)
    /\ log' = Append(log, GenerateCall(GcodeLines))
    /\ UNCHANGED <<doc, entities, polylines, circles, texts, analysis, params, call>>
    /\ UNCHANGED <<batchvars, threadvars>>

\* generate_cut_polyline called on its own with any point list
CallCutPolyline(points, closed) ==
    /\ pc \in {"idle", "configured"}
    /\ pc' = "cut_called"
    /\ call' = [points |-> points, closed |-> closed]
    /\ lines' = generate_cut_polyline(points, closed)
    /\ UNCHANGED <<doc, entities, polylines, circles, texts, analysis, params,
                   outfile, result>>
    /\ UNCHANGED <<log, batchvars, threadvars>>

\* the ordinates is_valid_coordinate is called with: around both ends of
\* each range, in tenths
UnitX == {-1, 0, 1, 12500, max_x * Scale - 1, max_x * Scale, max_x * Scale + 1}
UnitY == {-1, 0, 1, 15000, max_y * Scale - 1, max_y * Scale, max_y * Scale + 1}

\* is_valid_coordinate called on its own with any point
CallIsValidCoordinate(x, y) ==
    /\ pc = "idle"
    /\ pc' = "valid_called"
    /\ call' = [x |-> x, y |-> y, valid |-> is_valid_coordinate(x, y)]
    /\ UNCHANGED <<doc, entities, polylines, circles, texts, analysis, params,
                   lines, outfile, result>>
    /\ UNCHANGED <<log, batchvars, threadvars>>

Next ==
    \/ \E np \in Overlays : UpdateParams(np)
    \/ ReadFile
    \/ ReadFileFails
    \/ AnalyzeEntity
    \/ AnalyzeRaises
    \/ AnalyzeReturn
    \/ \E io \in IoOutcomes(GcodeLines) : generate_gcode(io)

Spec == Init /\ [][Next]_vars

NextUnit ==
    \/ \E np \in UnitOverlays : UpdateParams(np)
    \/ ReadFile
    \/ UnitAnalyzeEntity
    \/ AnalyzeReturn
    \/ generate_gcode([opened |-> TRUE, written |-> Len(GcodeLines)])
    \/ \E pts \in CutPointSeqs, c \in BOOLEAN : CallCutPolyline(pts, c)
    \/ \E x \in UnitX, y \in UnitY : CallIsValidCoordinate(x, y)

SpecUnit == Init /\ [][NextUnit]_vars

\* ---------------------------------------------------------------- the batch

\* the .dxf files of INPUT_PATH, each with the entities of its modelspace
DxfFiles == {"a.dxf", "b.dxf", "bad.dxf", "torn.dxf"}

Modelspace(f) ==
    CASE f = "a.dxf" -> <<Hole, Square>>
      [] f = "b.dxf" -> <<OutVertex, Label>>
      [] f = "torn.dxf" -> <<Hole, Hole>>
      [] f = "a.DXF" -> <<Square>>
      [] OTHER -> <<>>

\* ezdxf.readfile raises on this file
OpenFails(f) == f = "bad.dxf"

\* the iteration over the modelspace raises after the entities listed above
IterationRaises(f) == f = "torn.dxf"

\* os.path.join(OUTPUT_PATH, f"{os.path.splitext(dxf_file)[0]}.nc")
OutputName(f) ==
    CASE f = "a.dxf" -> "a.nc"
      [] f = "b.dxf" -> "b.nc"
      [] f = "bad.dxf" -> "bad.nc"
      [] f = "torn.dxf" -> "torn.nc"
      [] f = "a.DXF" -> "a.nc"

MaxBatch == 3
Batches == UNION {[1..n -> DxfFiles] : n \in 1..MaxBatch}

\* the document the loop is at
dxf_file == dxf_files[cur]

\* /api/generate: dxf_files is chosen and the results list is empty
SelectFiles(b) ==
    /\ pc \in {"idle", "configured"}
    /\ dxf_files = <<>>
    /\ pc' = "loop"
    /\ dxf_files' = b
    /\ results' = <<>>
    /\ UNCHANGED <<doc, entities, polylines, circles, texts, analysis, params,
                   lines, outfile, result, call, log, cur, outdir, threadvars>>

\* for dxf_file in dxf_files: the loop takes the next document
NextDocument ==
    /\ pc = "loop"
    /\ cur < Len(dxf_files)
    /\ pc' = "configured"
    /\ cur' = cur + 1
    /\ outfile' = outdir[OutputName(dxf_files[cur + 1])]
    /\ UNCHANGED <<doc, entities, polylines, circles, texts, analysis, params,
                   lines, result, call, log, dxf_files, results, outdir,
                   threadvars>>

BatchReadFile == cur > 0 /\ ~OpenFails(dxf_file) /\ ReadFile

BatchReadFileFails == cur > 0 /\ OpenFails(dxf_file) /\ ReadFileFails

BatchAnalyzeEntity ==
    /\ cur > 0
    /\ Len(doc) < Len(Modelspace(dxf_file))
    /\ AnalyzeStep(Modelspace(dxf_file)[Len(doc) + 1])

BatchAnalyzeRaises ==
    /\ cur > 0
    /\ Len(doc) = Len(Modelspace(dxf_file))
    /\ IterationRaises(dxf_file)
    /\ AnalyzeRaises

BatchAnalyzeReturn ==
    /\ cur > 0
    /\ Len(doc) = Len(Modelspace(dxf_file))
    /\ ~IterationRaises(dxf_file)
    /\ AnalyzeReturn

\* the entry of the results list for the document just processed
ResultEntry == [dxf_file |-> dxf_file, analysis |-> analysis, gcode |-> result]

\* a variant of the loop that records nothing for a document it could not analyze
ResultsAfterSkippingFailures ==
    IF analysis.success THEN Append(results, ResultEntry) ELSE results

\* results.append(...), in both branches of the loop body
ResultsAfter == Append(results, ResultEntry)

\* the end of the loop body: the entry is appended
RecordResult ==
    /\ pc \in {"generated", "failed"}
    /\ cur > 0
    /\ pc' = "loop"
    /\ results' = ResultsAfter
    /\ outdir' = [outdir EXCEPT ![OutputName(dxf_file)] = outfile]
    /\ UNCHANGED <<doc, entities, polylines, circles, texts, analysis, params,
                   lines, outfile, result, call, log, dxf_files, cur,
                   threadvars>>

\* return jsonify({'success': True, 'results': results, ...})
Respond ==
    /\ pc = "loop"
    /\ cur = Len(dxf_files)
    /\ pc' = "responded"
    /\ UNCHANGED <<doc, entities, polylines, circles, texts, analysis, params,
                   lines, outfile, result, call, log, batchvars, threadvars>>

NextBatch ==
    \/ \E np \in Overlays : UpdateParams(np)
    \/ \E b \in Batches : SelectFiles(b)
    \/ NextDocument
    \/ BatchReadFile
    \/ BatchReadFileFails
    \/ BatchAnalyzeEntity
    \/ BatchAnalyzeRaises
    \/ BatchAnalyzeReturn
    \/ cur > 0 /\ \E io \in IoOutcomes(GcodeLines) : generate_gcode(io)
    \/ RecordResult
    \/ Respond

SpecBatch == Init /\ [][NextBatch]_vars

\* -------------------------------------------------------------- the session

\* One analyzer and one generator used for several documents, with
\* update_params called again between two documents.

SessionOverlays ==
    { [process_order |-> "cut_first"],
      [process_order |-> "drill_first", drill_speed |-> IntParam(24000)],
      [safe_height |-> FloatParam(485), feed_rate |-> FloatParam(120005),
       drill_depth |-> FloatParam(75)],
      [units |-> "inch"] }

MaxUpdates == 2

\* the documents the session reads: two good ones and one that fails mid-way
SessionFiles == {"a.dxf", "b.dxf", "torn.dxf"}
SessionBatches == UNION {[1..n -> SessionFiles] : n \in 1..MaxBatch}

\* the update_params calls made so far
Updates == SelectSeq(log, LAMBDA c : c.op = "update_params")

\* update_params called between two documents (after the last document
\* nothing would read the new values)
SessUpdate(new_params) ==
    /\ pc = "loop"
    /\ cur > 0
    /\ cur < Len(dxf_files)
    /\ Len(Updates) < MaxUpdates
    /\ params' = update_params(new_params)
    /\ log' = Append(log, UpdateCall(new_params))
    /\ UNCHANGED <<pc, doc, entities, polylines, circles, texts, analysis,
                   lines, outfile, result, call, batchvars, threadvars>>

NextSession ==
    \/ \E np \in SessionOverlays : UpdateParams(np)
    \/ \E b \in SessionBatches : SelectFiles(b)
    \/ NextDocument
    \/ BatchReadFile
    \/ BatchAnalyzeEntity
    \/ BatchAnalyzeRaises
    \/ BatchAnalyzeReturn
    \/ cur > 0 /\ generate_gcode([opened |-> TRUE, written |-> Len(GcodeLines)])
    \/ RecordResult
    \/ \E np \in SessionOverlays : SessUpdate(np)

SpecSession == Init /\ [][NextSession]_vars

\* ------------------------------------------------------ concurrent requests

\* Two requests are served at once, each by its own run of the handler. The
\* handler creates its analyzer, its generator and its results list as
\* locals, so the state above is the running request's; the other request's
\* is set aside in `other` and the two are exchanged when the scheduler
\* switches. The files under OUTPUT_PATH are the one thing both can reach.

Locals ==
    [pc |-> pc, doc |-> doc, entities |-> entities, polylines |-> polylines,
     circles |-> circles, texts |-> texts, analysis |-> analysis,
     params |-> params, lines |-> lines, outfile |-> outfile,
     result |-> result, dxf_files |-> dxf_files, cur |-> cur,
     results |-> results, fh |-> fh]

\* a request that has just entered the handler
FreshLocals ==
    [pc |-> "idle", doc |-> <<>>, entities |-> <<>>, polylines |-> <<>>,
     circles |-> <<>>, texts |-> <<>>, analysis |-> NoAnalysis,
     params |-> DefaultParams, lines |-> <<>>, outfile |-> NoFile,
     result |-> NoResult, dxf_files |-> <<>>, cur |-> 0, results |-> <<>>,
     fh |-> NoHandle]

InitConc ==
    /\ pc = "idle"
    /\ doc = <<>>
    /\ entities = <<>>
    /\ polylines = <<>>
    /\ circles = <<>>
    /\ texts = <<>>
    /\ analysis = NoAnalysis
    /\ params = DefaultParams
    /\ lines = <<>>
    /\ outfile = NoFile
    /\ result = NoResult
    /\ call = NoCall
    /\ log = <<>>
    /\ dxf_files = <<>>
    /\ cur = 0
    /\ results = <<>>
    /\ outdir = NoFiles
    /\ fh = NoHandle
    /\ tid = 1
    /\ other = FreshLocals

\* The scheduler runs the other request. The steps from the choice of the
\* documents to the built lines touch the running request's own objects
\* only, so the switch is taken before them or at a step on the output file.
Switch ==
    /\ pc \in {"idle", "opening", "writing", "generated", "responded"}
    /\ other' = Locals
    /\ tid' = 3 - tid
    /\ pc' = other.pc
    /\ doc' = other.doc
    /\ entities' = other.entities
    /\ polylines' = other.polylines
    /\ circles' = other.circles
    /\ texts' = other.texts
    /\ analysis' = other.analysis
    /\ params' = other.params
    /\ lines' = other.lines
    /\ outfile' = other.outfile
    /\ result' = other.result
    /\ dxf_files' = other.dxf_files
    /\ cur' = other.cur
    /\ results' = other.results
    /\ fh' = other.fh
    /\ UNCHANGED <<call, log, outdir>>

\* a line written at position n of a file: it replaces the line there, or
\* extends the file, leaving a gap when the file has become shorter than n - 1
Gap == [k |-> "NUL"]
WriteAt(content, n, line) ==
    [i \in 1..(IF n > Len(content) THEN n ELSE Len(content)) |->
        IF i = n THEN line
        ELSE IF i <= Len(content) THEN content[i]
        ELSE Gap]

\* generate_gcode: the lines are built
ConcBuild ==
    /\ pc = "analyzed"
    /\ pc' = "opening"
    /\ lines' = GcodeLines
    /\ log' = Append(log, GenerateCall(GcodeLines))
    /\ UNCHANGED <<doc, entities, polylines, circles, texts, analysis, params,
                   outfile, result, call, batchvars, threadvars>>

\* generate_gcode: open(output_file, 'w') creates or truncates the file
ConcOpen ==
    /\ pc = "opening"
    /\ pc' = "writing"
    /\ outdir' = [outdir EXCEPT ![OutputName(dxf_file)] =
                     [exists |-> TRUE, content |-> <<>>]]
    /\ fh' = [open |-> TRUE, name |-> OutputName(dxf_file), pos |-> 0]
    /\ UNCHANGED <<doc, entities, polylines, circles, texts, analysis, params,
                   lines, outfile, result, call, log, dxf_files, cur, results,
                   tid, other>>

\* generate_gcode: f.write(line + '\n') at the position of this request's handle
ConcWrite ==
    /\ pc = "writing"
    /\ fh.pos < Len(lines)
    /\ outdir' = [outdir EXCEPT ![fh.name].content =
                     WriteAt(@, fh.pos + 1, lines[fh.pos + 1])]
    /\ fh' = [fh EXCEPT !.pos = @ + 1]
    /\ UNCHANGED <<pc, doc, entities, polylines, circles, texts, analysis,
                   params, lines, outfile, result, call, log, dxf_files, cur,
                   results, tid, other>>

\* generate_gcode: the file is closed and the success is returned
ConcReturn ==
    /\ pc = "writing"
    /\ fh.pos = Len(lines)
    /\ pc' = "generated"
    /\ fh' = NoHandle
    /\ result' = [success |-> TRUE, lines_count |-> Len(lines)]
    /\ UNCHANGED <<doc, entities, polylines, circles, texts, analysis, params,
                   lines, outfile, call, log, batchvars, tid, other>>

\* the end of the loop body: the entry is appended
ConcRecordResult ==
    /\ pc = "generated"
    /\ pc' = "loop"
    /\ results' = ResultsAfter
    /\ UNCHANGED <<doc, entities, polylines, circles, texts, analysis, params,
                   lines, outfile, result, call, log, dxf_files, cur, outdir,
                   threadvars>>

ConcOverlays == { [feed_rate |-> IntParam(8000)] }
\* the first request asks for b.dxf, the second for b.dxf too or for a.dxf
ConcBatches == IF tid = 1 THEN { <<"b.dxf">> } ELSE { <<"a.dxf">>, <<"b.dxf">> }

NextConc ==
    \/ \E np \in ConcOverlays : UpdateParams(np)
    \/ \E b \in ConcBatches : SelectFiles(b)
    \/ NextDocument
    \/ BatchReadFile
    \/ BatchAnalyzeEntity
    \/ BatchAnalyzeReturn
    \/ ConcBuild
    \/ ConcOpen
    \/ ConcWrite
    \/ ConcReturn
    \/ ConcRecordResult
    \/ Respond
    \/ Switch

SpecConc == InitConc /\ [][NextConc]_vars

\* ----------------------------------------------------- documents by size

MaxPolyPoints == 6
MaxSizeEntities == 7

\* a closed machinable polyline of n points, zigzagging up the table
PolyN(n) ==
    [type |-> "LWPOLYLINE", closed |-> TRUE,
     points |-> [i \in 1..n |-> Pt(100 * (i % 2), 100 * i)]]

SizeEntities == {Hole, PolyN(3), PolyN(MaxPolyPoints)}

SizeAnalyzeEntity ==
    Len(doc) < MaxSizeEntities /\ \E e \in SizeEntities : AnalyzeStep(e)

NextSize ==
    \/ ReadFile
    \/ SizeAnalyzeEntity
    \/ AnalyzeReturn
    \/ generate_gcode([opened |-> TRUE, written |-> Len(GcodeLines)])

SpecSize == Init /\ [][NextSize]_vars

\* ==================================================================== claims

\* ------------------------------------------------- the filter, stated anew

InEnvelope(p) == p[1] >= 0 /\ p[1] <= 2500 * Scale /\ p[2] >= 0 /\ p[2] <= 3000 * Scale

SetMax(S) == CHOOSE m \in S : \A x \in S : x <= m
SetMin(S) == CHOOSE m \in S : \A x \in S : m <= x

\* the indices of the in-envelope vertices of polyline e
KeptIdx(e) == {i \in 1..Len(e.points) : InEnvelope(e.points[i])}
KeptWidth(e) ==
    SetMax({e.points[i][1] : i \in KeptIdx(e)}) - SetMin({e.points[i][1] : i \in KeptIdx(e)})
KeptHeight(e) ==
    SetMax({e.points[i][2] : i \in KeptIdx(e)}) - SetMin({e.points[i][2] : i \in KeptIdx(e)})

\* section 3: a polyline is machinable
MachinablePolyline(e) ==
    /\ e.type = "LWPOLYLINE"
    /\ Cardinality(KeptIdx(e)) >= 3
    /\ ~(KeptWidth(e) > 1000 * Scale /\ KeptHeight(e) > 2000 * Scale)
    /\ KeptWidth(e) > 50 * Scale
    /\ KeptHeight(e) > 50 * Scale

\* section 3: a circle is machinable
MachinableCircle(e) ==
    /\ e.type = "CIRCLE"
    /\ InEnvelope(e.center)
    /\ e.radius >= 5 * Scale
    /\ e.radius <= 50 * Scale

\* the positions in the document of the accepted records, in list order
AcceptedIds(list) == [i \in 1..Len(list) |-> list[i].entity]

\* the positions of the first n entities of d that satisfy Ok
FirstN(d, n, Ok(_)) ==
    {i \in 1..Len(d) : Ok(d[i]) /\ Cardinality({j \in 1..(i - 1) : Ok(d[j])}) < n}

\* ids lists exactly the members of S, in increasing order
ListsInOrder(ids, S) ==
    /\ {ids[i] : i \in 1..Len(ids)} = S
    /\ \A i, j \in 1..Len(ids) : i < j => ids[i] < ids[j]

Count(d, Ok(_)) == Cardinality({i \in 1..Len(d) : Ok(d[i])})

\* C1: in every state of an analysis pass, and after it, the MachiningSet
\* holds at most 2 polylines and at most 4 circles.
C1_Caps == Len(polylines) <= 2 /\ Len(circles) <= 4

\* a document with more than 4 machinable circles has been read to its end
C1_Witness ==
    /\ pc = "analyzed"
    /\ Count(doc, MachinableCircle) > 4
    /\ Len(circles) = 4

ToolAt(ls, i) ==
    LET changes == {j \in 1..i : ls[j].k = "M6"}
    IN IF changes = {} THEN 0 ELSE ls[SetMax(changes)].T

\* the lines of the program proper: after the header, before the footer
BodyIdx(ls) == {i \in 1..Len(ls) : ls[i].k \notin {"G54", "M05", "G53", "M30"}}

\* the lines executed with the drill, and with the cutter, selected
DrillIdx(ls) == {i \in BodyIdx(ls) : ToolAt(ls, i) = 2}
CutIdx(ls) == {i \in BodyIdx(ls) : ToolAt(ls, i) = 1}

IsInterval(S) == S = {} \/ S = SetMin(S)..SetMax(S)

KindCount(ls, S, kinds) == Cardinality({i \in S : ls[i].k \in kinds})

Generated == pc = "generated"

\* C3: the drilling block and the cutting block are each contiguous; with
\* drill_first every drilling line precedes every cutting line, with
\* cut_first every cutting line precedes every drilling line.
C3_BlocksNotInterleaved ==
    Generated =>
        LET drill == DrillIdx(lines)
            cut == CutIdx(lines)
        IN /\ BodyIdx(lines) = drill \cup cut
           /\ IsInterval(drill) /\ IsInterval(cut)
           /\ KindCount(lines, drill, {"G00XY"}) = Len(circles)
           /\ KindCount(lines, cut, {"G00XY"}) = Len(polylines)
           /\ KindCount(lines, drill, {"G01XYF", "G01XY"}) = 0
           /\ params.process_order = "drill_first" =>
                 \A i \in drill, j \in cut : i < j
           /\ params.process_order = "cut_first" =>
                 \A i \in drill, j \in cut : j < i

\* a cut_first program with two holes and two parts
C3_Witness ==
    /\ Generated
    /\ params.process_order = "cut_first"
    /\ result.success
    /\ Len(circles) >= 2 /\ Len(polylines) >= 2
    /\ \A i \in DrillIdx(lines), j \in CutIdx(lines) : j < i

\* the Z moves of a program
IsZMove(ln) == ln.k \in {"G00Z", "G01Z"}

\* the retract to the safe height, rendered with one decimal
SafeRetract == [k |-> "G00Z", Z |-> <<params.safe_height.v \div Scale, params.safe_height.v % Scale>>]

\* C4: every cycle ends with a rapid retract to the safe height, so every
\* rapid XY positioning move is made with the tool at the safe height: the
\* last Z move before it is that retract, and no plunge lies in between.
C4_PositioningAtSafeHeight ==
    Generated =>
        /\ \A i \in 1..Len(lines) :
              lines[i].k = "G00XY" =>
                 LET zs == {j \in 1..(i - 1) : IsZMove(lines[j])}
                 IN zs # {} /\ lines[SetMax(zs)] = SafeRetract
        /\ \A i \in 1..Len(lines) :
              lines[i].k = "G01Z" =>
                 \E j \in (i + 1)..Len(lines) :
                    /\ lines[j] = SafeRetract
                    /\ \A m \in (i + 1)..(j - 1) :
                          lines[m].k \in {"G01XYF", "G01XY"}

\* a program with two drill cycles and two cut cycles
C4_Witness ==
    /\ Generated
    /\ result.success
    /\ Len(circles) >= 2 /\ Len(polylines) >= 2
    /\ KindCount(lines, 1..Len(lines), {"G00XY"}) >= 4
    /\ KindCount(lines, 1..Len(lines), {"G01Z"}) >= 4

\* the k-th smallest member of a set of numbers
Nth(S, k) == CHOOSE i \in S : Cardinality({j \in S : j < i}) = k - 1

IdSet(list) == {list[i].entity : i \in 1..Len(list)}

\* C5: a polyline record is appended if and only if, after its
\* out-of-envelope points are dropped, at least 3 points remain, the bounding
\* box of the remaining points is not sheet-sized, it exceeds the minimum part
\* size on both sides (strictly), and fewer than 2 polylines were accepted
\* before it; a 1500 x 2500 box and a 30 x 30 box are always rejected.
C5_PolylineAcceptedIff ==
    /\ \A i \in 1..Len(doc) :
          doc[i].type = "LWPOLYLINE" =>
             /\ i \in IdSet(polylines) <=>
                   /\ Cardinality(KeptIdx(doc[i])) >= 3
                   /\ ~(KeptWidth(doc[i]) > 1000 * Scale /\ KeptHeight(doc[i]) > 2000 * Scale)
                   /\ KeptWidth(doc[i]) > 50 * Scale
                   /\ KeptHeight(doc[i]) > 50 * Scale
                   /\ Cardinality({j \in IdSet(polylines) : j < i}) < 2
             /\ (/\ KeptIdx(doc[i]) # {}
                 /\ \/ KeptWidth(doc[i]) = 1500 * Scale /\ KeptHeight(doc[i]) = 2500 * Scale
                    \/ KeptWidth(doc[i]) = 30 * Scale /\ KeptHeight(doc[i]) = 30 * Scale)
                => i \notin IdSet(polylines)
    /\ \A k \in 1..Len(polylines) :
          LET e == doc[polylines[k].entity]
          IN /\ Len(polylines[k].points) = Cardinality(KeptIdx(e))
             /\ \A n \in 1..Len(polylines[k].points) :
                   polylines[k].points[n] = e.points[Nth(KeptIdx(e), n)]

\* a large part, wider than 1000 but not higher than 2000, was accepted as the
\* second polyline
C5_Witness ==
    /\ pc = "analyzing"
    /\ Len(polylines) = 2
    /\ KeptWidth(doc[polylines[2].entity]) > 1000 * Scale
    /\ KeptHeight(doc[polylines[2].entity]) = 2000 * Scale

\* C6: no accepted polyline originates from a document polyline with a vertex
\* outside the envelope, and no accepted circle has its center outside it.
C6_OutOfEnvelopeExcluded ==
    /\ \A k \in 1..Len(polylines) :
          \A n \in 1..Len(doc[polylines[k].entity].points) :
             InEnvelope(doc[polylines[k].entity].points[n])
    /\ \A k \in 1..Len(circles) : InEnvelope(circles[k].center)

\* C7: a circle record is appended if and only if its center is in the
\* envelope, its radius is in [5, 50] (both inclusive) and fewer than 4
\* circles were accepted before it.
C7_CircleAcceptedIff ==
    \A i \in 1..Len(doc) :
       doc[i].type = "CIRCLE" =>
          (i \in IdSet(circles) <=>
              /\ InEnvelope(doc[i].center)
              /\ 5 * Scale <= doc[i].radius
              /\ doc[i].radius <= 50 * Scale
              /\ Cardinality({j \in IdSet(circles) : j < i}) < 4)

\* a circle of radius exactly 50 centered on the far corner of the envelope
\* was accepted as the fourth circle
C7_Witness ==
    /\ pc = "analyzing"
    /\ Len(circles) = 4
    /\ circles[4].radius = 50 * Scale
    /\ circles[4].center = <<2500 * Scale, 3000 * Scale>>

\* the positions of the closing moves in a list of lines
ClosingIdx(ls) == {i \in 1..Len(ls) : ls[i].k = "G01XY"}

\* C8: the closing move of a cut cycle is emitted if and only if the polyline
\* is closed and has more than 2 points; when emitted it returns to the first
\* point and is the last move before the retract.
C8_ClosingMoveIff ==
    /\ pc = "cut_called" =>
          /\ ClosingIdx(lines) # {} <=> (call.closed /\ Len(call.points) > 2)
          /\ \A i \in ClosingIdx(lines) :
                /\ i = Len(lines) - 1
                /\ lines[i].X = <<call.points[1][1] \div Scale, call.points[1][1] % Scale>>
                /\ lines[i].Y = <<call.points[1][2] \div Scale, call.points[1][2] % Scale>>
                /\ lines[Len(lines)].k = "G00Z"
                /\ lines[i - 1].k = "G01XYF"
    /\ Generated =>
          /\ Cardinality(ClosingIdx(lines))
                = Cardinality({k \in 1..Len(polylines) : polylines[k].closed})
          /\ \A i \in ClosingIdx(lines) :
                lines[i + 1].k = "G00Z" /\ lines[i - 1].k = "G01XYF"

\* generate_cut_polyline closed a closed 3-point polyline
C8_Witness ==
    /\ pc = "cut_called"
    /\ call.closed /\ Len(call.points) = 3
    /\ ClosingIdx(lines) = {5}
    /\ Len(lines) = 6

\* ------------------------------------------------- the program, stated anew

\* one decimal digit
OneDecimal(x) == <<x \div Scale, x % Scale>>

\* the number of lines of the cut cycle of an n-point polyline
CycleLen(p) == 2 + (Len(p.points) - 1) + (IF p.closed THEN 1 ELSE 0) + 1

RECURSIVE CyclesLen(_)
CyclesLen(ps) == IF ps = <<>> THEN 0 ELSE CycleLen(Head(ps)) + CyclesLen(Tail(ps))

DrillBlockLen == IF Len(circles) = 0 THEN 0 ELSE 4 + 3 * Len(circles)
CutBlockLen == IF Len(polylines) = 0 THEN 0 ELSE 4 + CyclesLen(polylines)

\* the line before the first line of each block
DrillBase == IF params.process_order = "drill_first" THEN 1 ELSE 1 + CutBlockLen
CutBase == IF params.process_order = "drill_first" THEN 1 + DrillBlockLen ELSE 1

\* lines base+1 .. base+4 are the change to tool t at spindle speed s
IsToolChange(ls, base, t, s) ==
    /\ ls[base + 1] = [k |-> "M6", T |-> t]
    /\ ls[base + 2] = [k |-> "M03", S |-> <<s.v \div Scale>>]
    /\ ls[base + 3] = [k |-> "G43", H |-> t]
    /\ ls[base + 4] = [k |-> "G00Z", Z |-> OneDecimal(params.safe_height.v)]

\* lines base+1 .. base+3 are the drill cycle of circle c
IsDrillCycle(ls, base, c) ==
    /\ ls[base + 1] = [k |-> "G00XY", X |-> OneDecimal(c.center[1]), Y |-> OneDecimal(c.center[2])]
    /\ ls[base + 2] = [k |-> "G01Z", Z |-> OneDecimal(params.drill_depth.v), F |-> <<3000>>]
    /\ ls[base + 3] = [k |-> "G00Z", Z |-> OneDecimal(params.safe_height.v)]

\* lines base+1 .. base+CycleLen(p) are the cut cycle of polyline p
IsCutCycle(ls, base, p) ==
    LET n == Len(p.points)
    IN /\ ls[base + 1] = [k |-> "G00XY", X |-> OneDecimal(p.points[1][1]),
                          Y |-> OneDecimal(p.points[1][2])]
       /\ ls[base + 2] = [k |-> "G01Z", Z |-> OneDecimal(params.cut_depth.v), F |-> <<3000>>]
       /\ \A i \in 2..n :
             ls[base + 1 + i] = [k |-> "G01XYF", X |-> OneDecimal(p.points[i][1]),
                                 Y |-> OneDecimal(p.points[i][2]),
                                 F |-> <<params.feed_rate.v \div Scale>>]
       /\ p.closed => ls[base + n + 2] = [k |-> "G01XY", X |-> OneDecimal(p.points[1][1]),
                                          Y |-> OneDecimal(p.points[1][2])]
       /\ ls[base + CycleLen(p)] = [k |-> "G00Z", Z |-> OneDecimal(params.safe_height.v)]

ScenarioA ==
    /\ Len(circles) = 1 /\ Len(polylines) = 1
    /\ circles[1].center = <<100 * Scale, 200 * Scale>>
    /\ polylines[1].closed
    /\ polylines[1].points
          = << <<0, 0>>, <<100 * Scale, 0>>, <<100 * Scale, 100 * Scale>>, <<0, 100 * Scale>> >>
    /\ params = DefaultParams

\* C9: a program is the header line, then per present block a 4-line tool
\* change followed by its cycles, then the 3-line footer ending with the
\* program-end marker; each circle gives 3 lines (position, plunge to
\* drill_depth, retract) in MachiningSet order, each n-point polyline gives
\* position, plunge to cut_depth, n-1 feed moves in point order, the closing
\* move if any and a retract; Scenario A has exactly 22 lines.
C9_ProgramShape ==
    Generated =>
        /\ Len(lines) = 1 + DrillBlockLen + CutBlockLen + 3
        /\ lines[1] = [k |-> "G54"]
        /\ lines[Len(lines) - 2] = [k |-> "M05"]
        /\ lines[Len(lines) - 1] = [k |-> "G53", X |-> <<100, 0>>, Y |-> <<2850, 0>>]
        /\ lines[Len(lines)] = [k |-> "M30"]
        /\ Len(circles) > 0 =>
              /\ IsToolChange(lines, DrillBase, 2, params.drill_speed)
              /\ \A i \in 1..Len(circles) :
                    IsDrillCycle(lines, DrillBase + 4 + 3 * (i - 1), circles[i])
        /\ Len(polylines) > 0 =>
              /\ IsToolChange(lines, CutBase, 1, params.cutter_speed)
              /\ \A i \in 1..Len(polylines) :
                    IsCutCycle(lines, CutBase + 4 + CyclesLen(SubSeq(polylines, 1, i - 1)),
                               polylines[i])
        /\ ScenarioA => Len(lines) = 22
        /\ result.success => result.lines_count = Len(lines) /\ outfile.content = lines

\* Scenario A was generated and written: 22 lines
C9_Witness ==
    /\ Generated
    /\ ScenarioA
    /\ result.success
    /\ result.lines_count = 22

\* the positions of the changes to tool t
ToolChangeIdx(ls, t) == {i \in 1..Len(ls) : ls[i].k = "M6" /\ ls[i].T = t}

\* C10: a block and its tool change are emitted if and only if the
\* MachiningSet holds a record of that kind; with no circle there is no drill
\* tool change and no drill cycle, with no polyline no cutter tool change and
\* no cut cycle, and with neither the program is the header and the footer,
\* 4 lines, and generation succeeds (short of a failing write).
C10_BlockIffRecords ==
    Generated =>
        /\ ToolChangeIdx(lines, 2) # {} <=> Len(circles) > 0
        /\ ToolChangeIdx(lines, 1) # {} <=> Len(polylines) > 0
        /\ Cardinality(ToolChangeIdx(lines, 2)) <= 1
        /\ Cardinality(ToolChangeIdx(lines, 1)) <= 1
        /\ KindCount(lines, 1..Len(lines), {"M6", "M03", "G43"})
              = 3 * Cardinality(ToolChangeIdx(lines, 1) \cup ToolChangeIdx(lines, 2))
        /\ Len(circles) = 0 =>
              /\ DrillIdx(lines) = {}
              /\ KindCount(lines, 1..Len(lines), {"G00XY"}) = Len(polylines)
        /\ Len(polylines) = 0 =>
              /\ CutIdx(lines) = {}
              /\ KindCount(lines, 1..Len(lines), {"G01XYF", "G01XY"}) = 0
              /\ KindCount(lines, 1..Len(lines), {"G00XY"}) = Len(circles)
        /\ (Len(circles) = 0 /\ Len(polylines) = 0) =>
              /\ lines = << [k |-> "G54"], [k |-> "M05"],
                            [k |-> "G53", X |-> <<100, 0>>, Y |-> <<2850, 0>>],
                            [k |-> "M30"] >>
              /\ result.success \/ result.error = "IOError"
              /\ result.success => result.lines_count = 4 /\ outfile.content = lines

\* a document without machinable geometry gave the 4-line program
C10_Witness ==
    /\ Generated
    /\ Len(doc) > 0
    /\ Len(circles) = 0 /\ Len(polylines) = 0
    /\ result.success
    /\ Len(outfile.content) = 4

\* ------------------------------------------------- two calls, one generator

\* the generate_gcode calls made so far, oldest first; the list grows only in
\* the step that ends in a generated state, so calls are compared there
Generates == SelectSeq(log, LAMBDA c : c.op = "generate_gcode")

\* the lines of ls at the positions S, in program order
Pick(ls, S) == [n \in 1..Cardinality(S) |-> ls[Nth(S, n)]]

HeaderIdx(ls) == {i \in 1..Len(ls) : ls[i].k = "G54"}
FooterIdx(ls) == {i \in 1..Len(ls) : ls[i].k \in {"M05", "G53", "M30"}}

\* two calls that read the same MachiningSet
SameSet(p, q) == p.circles = q.circles /\ p.polylines = q.polylines

\* p was generated drill_first, q cut_first, nothing else differs
SameButOrder(p, q) ==
    /\ SameSet(p, q)
    /\ p.params.process_order = "drill_first"
    /\ q.params.process_order = "cut_first"
    /\ DOMAIN p.params = DOMAIN q.params
    /\ \A key \in DOMAIN p.params \ {"process_order"} :
           p.params[key] = q.params[key]

\* C11: when two calls differ in process_order only, the cut_first program
\* is the header, the cutting block, the drilling block and the footer of
\* the drill_first program, line for line, in that order; the drill_first
\* program is the same four parts with the drilling block first.
C11_SameBlocksOtherOrder ==
    Generated => \A i, j \in 1..Len(Generates) :
        LET p == Generates[i]
            q == Generates[j]
        IN SameButOrder(p, q) =>
              LET header == Pick(p.lines, HeaderIdx(p.lines))
                  drill == Pick(p.lines, DrillIdx(p.lines))
                  cut == Pick(p.lines, CutIdx(p.lines))
                  footer == Pick(p.lines, FooterIdx(p.lines))
              IN /\ p.lines = header \o drill \o cut \o footer
                 /\ q.lines = header \o cut \o drill \o footer
                 /\ Pick(q.lines, DrillIdx(q.lines)) = drill
                 /\ Pick(q.lines, CutIdx(q.lines)) = cut

\* the same holes and part generated in both orders, the drill running at a
\* speed of its own
C11_Witness ==
    \E i, j \in 1..Len(Generates) :
        /\ SameButOrder(Generates[i], Generates[j])
        /\ Generates[i].circles # <<>>
        /\ Generates[i].polylines # <<>>
        /\ Generates[i].params.drill_speed # Generates[i].params.cutter_speed
        /\ Generates[i].lines # Generates[j].lines

\* C12: any two generate_gcode calls made on the same generator and analyzer
\* that read the same MachiningSet and the same parameters built the same
\* lines, whatever was analyzed, generated or updated between them.
C12_Deterministic ==
    Generated => \A i, j \in 1..Len(Generates) :
        (SameSet(Generates[i], Generates[j])
         /\ Generates[i].params = Generates[j].params)
        => Generates[i].lines = Generates[j].lines

\* the same holes and part generated twice, another program in between
C12_Witness ==
    \E i, j, n \in 1..Len(Generates) :
        /\ i < n /\ n < j
        /\ SameSet(Generates[i], Generates[j])
        /\ Generates[i].params = Generates[j].params
        /\ Generates[i].circles # <<>>
        /\ Generates[i].polylines # <<>>
        /\ Generates[n].lines # Generates[i].lines

\* ----------------------------------------------------------- persisting

\* the output file of the document at hand as it was before generate_gcode
FileBefore == outdir[OutputName(dxf_file)]

\* C13: when generate_gcode has returned, the output file holds the complete
\* new program, or it is as it was before the call (nothing of the new
\* program, no file where there was none); and when the write did not
\* complete the result reports failure.
C13_AllOrNothing ==
    (Generated /\ cur > 0) =>
        /\ outfile = [exists |-> TRUE, content |-> lines] \/ outfile = FileBefore
        /\ outfile # [exists |-> TRUE, content |-> lines] => ~result.success

\* ------------------------------------------------------------- the batch

\* the documents the loop has finished with
Processed == IF pc \in {"loop", "responded"} THEN cur ELSE cur - 1

\* the document fails to open or fails while its entities are read
AnalysisFails(f) == OpenFails(f) \/ IterationRaises(f)

\* C14: in every state of a request the results list holds exactly one entry
\* per document the loop has finished, in batch order; the entry of a
\* document that failed to open or failed during extraction carries a failed
\* analysis with its error and a failed generation with its error; the entry
\* of any other document carries its successful analysis, and either a
\* successful generation whose program is in its file or the error of the
\* write; and the response is sent only when every document has its entry.
C14_BatchIsolatesFailures ==
    cur > 0 =>
        /\ Len(results) = Processed
        /\ pc = "responded" => Len(results) = Len(dxf_files)
        /\ \A i \in 1..Len(results) :
              LET r == results[i]
                  f == dxf_files[i]
              IN /\ r.dxf_file = f
                 /\ AnalysisFails(f) =>
                       /\ ~r.analysis.success /\ "error" \in DOMAIN r.analysis
                       /\ ~r.gcode.success /\ "error" \in DOMAIN r.gcode
                 /\ ~AnalysisFails(f) =>
                       /\ r.analysis.success
                       /\ r.analysis.total_entities = Len(Modelspace(f))
                       /\ r.gcode.success \/ "error" \in DOMAIN r.gcode
                       /\ r.gcode.success => r.gcode.lines_count > 0

\* a batch answered in full: the first document failed mid-extraction, the
\* second could not be persisted, the third succeeded
C14_Witness ==
    /\ pc = "responded"
    /\ Len(dxf_files) = 3
    /\ IterationRaises(dxf_files[1])
    /\ results[2].analysis.success /\ ~results[2].gcode.success
    /\ results[3].gcode.success
    /\ outdir[OutputName(dxf_files[3])].content # <<>>

\* ------------------------------------- a document processed on its own

\* section 4.2 applied to a modelspace d read by a fresh analyzer: the first
\* four machinable circles and the first two machinable polylines, each
\* polyline with its in-envelope points
AloneCircles(d) ==
    LET ids == FirstN(d, 4, MachinableCircle)
    IN [n \in 1..Cardinality(ids) |->
           [center |-> d[Nth(ids, n)].center, radius |-> d[Nth(ids, n)].radius]]

AlonePolylines(d) ==
    LET ids == FirstN(d, 2, MachinablePolyline)
    IN [n \in 1..Cardinality(ids) |->
           [points |-> SelectSeq(d[Nth(ids, n)].points, InEnvelope),
            closed |-> d[Nth(ids, n)].closed]]

AloneTexts(d) == Count(d, LAMBDA e : e.type = "TEXT" /\ InEnvelope(e.insert))

\* section 4.3 applied to circles cs, polylines ps and parameters prm
AloneToolChange(t, s, prm) ==
    << [k |-> "M6", T |-> t], [k |-> "M03", S |-> <<s.v \div Scale>>],
       [k |-> "G43", H |-> t],
       [k |-> "G00Z", Z |-> OneDecimal(prm.safe_height.v)] >>

AloneDrillCycle(c, prm) ==
    << [k |-> "G00XY", X |-> OneDecimal(c.center[1]), Y |-> OneDecimal(c.center[2])],
       [k |-> "G01Z", Z |-> OneDecimal(prm.drill_depth.v), F |-> <<3000>>],
       [k |-> "G00Z", Z |-> OneDecimal(prm.safe_height.v)] >>

AloneCutCycle(p, prm) ==
    << [k |-> "G00XY", X |-> OneDecimal(p.points[1][1]), Y |-> OneDecimal(p.points[1][2])],
       [k |-> "G01Z", Z |-> OneDecimal(prm.cut_depth.v), F |-> <<3000>>] >>
    \o [i \in 1..(Len(p.points) - 1) |->
           [k |-> "G01XYF", X |-> OneDecimal(p.points[i + 1][1]),
            Y |-> OneDecimal(p.points[i + 1][2]),
            F |-> <<prm.feed_rate.v \div Scale>>]]
    \o (IF p.closed /\ Len(p.points) > 2
        THEN << [k |-> "G01XY", X |-> OneDecimal(p.points[1][1]),
                 Y |-> OneDecimal(p.points[1][2])] >>
        ELSE <<>>)
    \o << [k |-> "G00Z", Z |-> OneDecimal(prm.safe_height.v)] >>

AloneProgram(cs, ps, prm) ==
    LET drill == IF cs = <<>> THEN <<>>
                 ELSE AloneToolChange(2, prm.drill_speed, prm)
                      \o Flatten([i \in 1..Len(cs) |-> AloneDrillCycle(cs[i], prm)])
        cut == IF ps = <<>> THEN <<>>
               ELSE AloneToolChange(1, prm.cutter_speed, prm)
                    \o Flatten([i \in 1..Len(ps) |-> AloneCutCycle(ps[i], prm)])
    IN << [k |-> "G54"] >>
       \o (IF prm.process_order = "drill_first" THEN drill \o cut ELSE cut \o drill)
       \o << [k |-> "M05"], [k |-> "G53", X |-> <<100, 0>>, Y |-> <<2850, 0>>],
             [k |-> "M30"] >>

\* the geometry of the accepted records, without their bookkeeping fields
Geometry(list) ==
    [i \in 1..Len(list) |->
        IF "center" \in DOMAIN list[i]
        THEN [center |-> list[i].center, radius |-> list[i].radius]
        ELSE [points |-> list[i].points, closed |-> list[i].closed]]

\* C15: whatever documents the same analyzer and generator processed before
\* in the batch, also ones that failed to open or failed mid-extraction, the
\* circles and polylines held for a document, the counts reported for it and
\* the program generated for it are those of the document read by a fresh
\* analyzer and sequenced with the request's parameters.
C15_NoStateCarried ==
    /\ (pc \in {"analyzed", "generated"} /\ cur > 0) =>
          LET d == Modelspace(dxf_file)
          IN /\ Geometry(circles) = AloneCircles(d)
             /\ Geometry(polylines) = AlonePolylines(d)
             /\ analysis = [success |-> TRUE, total_entities |-> Len(d),
                            polylines |-> Len(AlonePolylines(d)),
                            circles |-> Len(AloneCircles(d)),
                            texts |-> AloneTexts(d)]
             /\ Generated =>
                   lines = AloneProgram(AloneCircles(d), AlonePolylines(d), params)
    /\ \A i \in 1..Len(results) :
          LET d == Modelspace(dxf_files[i])
          IN /\ results[i].analysis.success =>
                   /\ results[i].analysis.total_entities = Len(d)
                   /\ results[i].analysis.circles = Len(AloneCircles(d))
                   /\ results[i].analysis.polylines = Len(AlonePolylines(d))
                   /\ results[i].analysis.texts = AloneTexts(d)
             /\ results[i].gcode.success =>
                   results[i].gcode.lines_count
                      = Len(AloneProgram(AloneCircles(d), AlonePolylines(d), params))

\* a document with a hole and a part generated right after a document that
\* failed mid-extraction and left two holes in the analyzer's lists, and
\* after one that failed to open
C15_Witness ==
    /\ Generated /\ cur = 3
    /\ IterationRaises(dxf_files[1])
    /\ OpenFails(dxf_files[2])
    /\ circles # <<>> /\ polylines # <<>>
    /\ result.success

\* ------------------------------------------------------ concurrent requests

\* the update_params calls of request t, and the parameters they leave
OwnUpdates(t) == SelectSeq(log, LAMBDA c : c.op = "update_params" /\ c.tid = t)
OwnParams(t) ==
    IF OwnUpdates(t) = <<>> THEN DefaultParams
    ELSE [key \in DOMAIN DefaultParams |->
             IF key \in DOMAIN OwnUpdates(t)[1].new_params
             THEN OwnUpdates(t)[1].new_params[key]
             ELSE DefaultParams[key]]

\* request t, whose local state is l, has answered, and the program its
\* success entry reports is the one in the file: the program of its own
\* document under its own parameters
OwnProgramPersisted(t, l) ==
    LET d == Modelspace(l.dxf_files[1])
        own == AloneProgram(AloneCircles(d), AlonePolylines(d), OwnParams(t))
    IN /\ l.params = OwnParams(t)
       /\ l.lines = own
       /\ l.results[1].gcode.success =>
             /\ l.results[1].gcode.lines_count = Len(own)
             /\ outdir[OutputName(l.dxf_files[1])].content = own

\* C16: when both requests have answered, each one's parameters and program
\* are its own, and the file each success entry names holds that request's
\* program.
C16_NoInterference ==
    (pc = "responded" /\ other.pc = "responded") =>
        /\ OwnProgramPersisted(tid, Locals)
        /\ OwnProgramPersisted(3 - tid, other)

\* ------------------------------------------------------------- rendering

\* the rendered numbers of a line: coordinates and heights, speeds and feeds
LengthWords(ln) == {ln[w] : w \in DOMAIN ln \cap {"X", "Y", "Z"}}
RateWords(ln) == {ln[w] : w \in DOMAIN ln \cap {"S", "F"}}

\* C17: in every program generated, every X, Y and Z value is an integer
\* part and exactly one decimal digit, and every S and F value is an integer
\* without a fraction.
C17_OneDecimalAndIntegers ==
    \A n \in 1..Len(Generates) :
        \A i \in 1..Len(Generates[n].lines) :
            /\ \A w \in LengthWords(Generates[n].lines[i]) :
                  Len(w) = 2 /\ w[2] \in 0..9
            /\ \A w \in RateWords(Generates[n].lines[i]) : Len(w) = 1

\* ------------------------------------------------------------ program size

RECURSIVE SumOver(_, _)
SumOver(f, S) ==
    IF S = {} THEN 0
    ELSE LET x == CHOOSE x \in S : TRUE IN f[x] + SumOver(f, S \ {x})

\* the in-envelope points of the first two machinable polylines of d
CutPoints(d) ==
    SumOver([i \in 1..Len(d) |-> Cardinality(KeptIdx(d[i]))],
            FirstN(d, 2, MachinablePolyline))

\* the lines of the largest program of sections 4.3 and 8: header, four
\* holes, two closed rectangles, footer
ScenarioBound == 1 + (4 + 3 * 4) + (4 + 2 * 7) + 3

\* C18 as stated: the program has no more lines than a bound fixed by the
\* caps of 2 polylines and 4 circles, whatever the points of each polyline.
C18_SizeBoundedByCaps == Generated => Len(lines) <= ScenarioBound

\* C18, amended: the program has at most 30 lines (header, two tool changes,
\* four drill cycles, the plunge, closing move and retract of two cut
\* cycles, footer) plus one line per in-envelope point of the first two
\* machinable polylines, whatever the number of entities of the document.
C18_SizeBoundedByCapsAndPoints ==
    Generated => Len(lines) <= 1 + (4 + 3 * 4) + (4 + 2 * 3) + 3 + CutPoints(doc)

\* five holes and two polylines of the most points: the bound is attained
\* and the program is longer than the largest of the scenarios
C18_Witness ==
    /\ Generated
    /\ Len(doc) > Len(circles) + Len(polylines)
    /\ Len(lines) = 30 + CutPoints(doc)
    /\ Len(lines) > ScenarioBound

\* ------------------------------------------------------------ the overlay

Recognized ==
    {"thickness", "cutter_speed", "drill_speed", "feed_rate", "safe_height",
     "cut_depth", "drill_depth", "process_order"}

\* the documented defaults of section 3
Documented ==
    [thickness |-> IntParam(18), cutter_speed |-> IntParam(18000),
     drill_speed |-> IntParam(18000), feed_rate |-> IntParam(12000),
     safe_height |-> IntParam(48), cut_depth |-> IntParam(18),
     drill_depth |-> IntParam(7), process_order |-> "drill_first"]

\* the update_params calls that supplied key, by their position in Updates
Supplied(key) == {n \in 1..Len(Updates) : key \in DOMAIN Updates[n].new_params}

\* two calls whose parameters agree on every recognized key
SameRecognized(p, q) == \A key \in Recognized : p.params[key] = q.params[key]

\* C19: every recognized key holds the value of the last overlay that
\* supplied it, and its documented default when no overlay supplied it; and
\* two programs generated from the same MachiningSet under parameters that
\* agree on the recognized keys are identical, whatever other keys an
\* overlay added.
C19_OverlayFrame ==
    /\ \A key \in Recognized :
          /\ key \in DOMAIN params
          /\ params[key] = IF Supplied(key) = {} THEN Documented[key]
                           ELSE Updates[SetMax(Supplied(key))].new_params[key]
    /\ Generated => \A i, j \in 1..Len(Generates) :
          (SameSet(Generates[i], Generates[j])
           /\ SameRecognized(Generates[i], Generates[j]))
          => Generates[i].lines = Generates[j].lines

\* the same holes and part generated before and after an overlay with an
\* unknown key, an earlier overlay having changed one recognized key only
C19_Witness ==
    \E i, j \in 1..Len(Generates) :
        /\ SameSet(Generates[i], Generates[j])
        /\ DOMAIN Generates[i].params = Recognized
        /\ DOMAIN Generates[j].params # Recognized
        /\ Generates[i].lines = Generates[j].lines
        /\ Generates[i].circles # <<>>
        /\ Generates[i].params.process_order # Documented.process_order
        /\ \A key \in Recognized \ {"process_order"} :
              Generates[j].params[key] = Documented[key]

\* ------------------------------------------------------------ the envelope

\* C20: is_valid_coordinate(x, y) is true exactly when 0 <= x <= 2500 and
\* 0 <= y <= 3000, the four limits included.
C20_ValidIffInEnvelope ==
    pc = "valid_called" =>
        (call.valid <=> (/\ 0 <= call.x /\ call.x <= 2500 * Scale
                         /\ 0 <= call.y /\ call.y <= 3000 * Scale))

\* the far corner of the table is valid
C20_Witness ==
    /\ pc = "valid_called"
    /\ call.x = 2500 * Scale /\ call.y = 3000 * Scale
    /\ call.valid

\* ------------------------------------------------------------ text labels

\* the positions of the TEXT entities of the document read so far
TextIds == {i \in 1..Len(doc) : doc[i].type = "TEXT"}

InPass == pc \in {"analyzing", "analyzed", "generated"}

\* no text record is among the circles or the polylines, and the program is
\* the one of the document with its texts left out
TextsNotMachined ==
    /\ \A i \in 1..Len(circles) : doc[circles[i].entity].type = "CIRCLE"
    /\ \A i \in 1..Len(polylines) : doc[polylines[i].entity].type = "LWPOLYLINE"
    /\ Generated =>
          LET d == SelectSeq(doc, LAMBDA e : e.type # "TEXT")
          IN lines = AloneProgram(AloneCircles(d), AlonePolylines(d), params)

\* C21: every TEXT entity read is in the texts list, whatever its insertion
\* point, and is counted in the result of the analysis; no text record is in
\* the MachiningSet, and the program is the one the document gives without
\* its texts.
C21_TextsUnfilteredNotMachined ==
    InPass =>
        /\ IdSet(texts) = TextIds
        /\ pc \in {"analyzed", "generated"} => analysis.texts = Cardinality(TextIds)
        /\ TextsNotMachined

\* ---------------------------------------------------------- tool discipline

\* a cycle starts with a positioning move followed by a plunge; the drill
\* cycle retracts at once, the cut cycle moves in the plane first
DrillCycleStarts(ls) ==
    {i \in 1..(Len(ls) - 2) :
        ls[i].k = "G00XY" /\ ls[i + 1].k = "G01Z" /\ ls[i + 2].k = "G00Z"}

CutCycleStarts(ls) ==
    {i \in 1..(Len(ls) - 2) :
        ls[i].k = "G00XY" /\ ls[i + 1].k = "G01Z" /\ ls[i + 2].k \in {"G01XYF", "G01XY"}}

\* line i comes after a change to tool t that starts the spindle at speed s,
\* with no change to another tool in between
PrecededByChange(ls, i, t, s) ==
    \E j \in 1..(i - 2) :
        /\ ls[j] = [k |-> "M6", T |-> t]
        /\ ls[j + 1] = [k |-> "M03", S |-> PyStr(s)]
        /\ \A m \in (j + 1)..i : ls[m].k = "M6" => ls[m].T = t

\* C22: in a generated program every drill cycle comes after the change to
\* tool 2 with the spindle started at drill_speed and no change to the cutter
\* in between, every cut cycle after the change to tool 1 at cutter_speed
\* with no change to the drill in between, each tool is selected at most
\* once, every plunge comes after a spindle start, and the one spindle stop
\* is the first line of the footer, after every line of every cycle.
C22_ToolDiscipline ==
    Generated =>
        /\ Cardinality(DrillCycleStarts(lines)) = Len(circles)
        /\ Cardinality(CutCycleStarts(lines)) = Len(polylines)
        /\ \A i \in DrillCycleStarts(lines) :
              PrecededByChange(lines, i, DrillTool, params.drill_speed)
        /\ \A i \in CutCycleStarts(lines) :
              PrecededByChange(lines, i, CutterTool, params.cutter_speed)
        /\ \A t \in {DrillTool, CutterTool} : Cardinality(ToolChangeIdx(lines, t)) <= 1
        /\ \A i \in 1..Len(lines) :
              /\ lines[i].k = "M6" => lines[i].T \in {DrillTool, CutterTool}
              /\ lines[i].k = "G01Z" => \E j \in 1..(i - 1) : lines[j].k = "M03"
              /\ lines[i].k = "M05" =>
                    /\ i = Len(lines) - 2
                    /\ \A j \in BodyIdx(lines) : j < i

\* two drill cycles and a cut cycle, the two spindle speeds different
C22_Witness ==
    /\ Generated
    /\ result.success
    /\ Cardinality(DrillCycleStarts(lines)) >= 2
    /\ Cardinality(CutCycleStarts(lines)) >= 1
    /\ params.cutter_speed # params.drill_speed
    /\ ToolChangeIdx(lines, DrillTool) # {}
    /\ ToolChangeIdx(lines, CutterTool) # {}

\* ------------------------------------------------------ the names of a batch

\* The request lists file names; the handler keeps those that end in ".dxf"
\* whatever their case. The input directory is on a case-sensitive file
\* system and holds a.dxf, a.DXF (another drawing) and a.txt.

ListedFiles == {"a.dxf", "a.DXF", "a.txt"}

\* str.lower of a listed name
Lower(f) == IF f = "a.DXF" THEN "a.dxf" ELSE f

\* f.lower().endswith('.dxf')
IsDxfName(f) == Lower(f) \in DxfFiles

Selections == UNION {[1..n -> ListedFiles] : n \in 1..MaxBatch}

\* /api/generate: the selected names are filtered; with none left the
\* request is answered with an error, otherwise the loop starts
SelectListed(selected_files) ==
    /\ pc \in {"idle", "configured"}
    /\ dxf_files = <<>>
    /\ LET kept == SelectSeq(selected_files, IsDxfName)
       IN /\ pc' = IF kept = <<>> THEN "responded" ELSE "loop"
          /\ dxf_files' = kept
    /\ results' = <<>>
    /\ UNCHANGED <<doc, entities, polylines, circles, texts, analysis, params,
                   lines, outfile, result, call, log, cur, outdir, threadvars>>

NextNames ==
    \/ \E np \in Overlays : UpdateParams(np)
    \/ \E sel \in Selections : SelectListed(sel)
    \/ NextDocument
    \/ BatchReadFile
    \/ BatchAnalyzeEntity
    \/ BatchAnalyzeReturn
    \/ cur > 0 /\ generate_gcode([opened |-> TRUE, written |-> Len(GcodeLines)])
    \/ RecordResult
    \/ Respond

SpecNames == Init /\ [][NextNames]_vars

\* the program of document f processed on its own under the parameters in force
OwnProgram(f) ==
    AloneProgram(AloneCircles(Modelspace(f)), AlonePolylines(Modelspace(f)), params)

\* C23: when the batch is answered, the file of every entry that reports
\* success holds the program of that entry's own document, and two different
\* documents of the batch have different output files.
C23_EntryFileHoldsOwnProgram ==
    (pc = "responded" /\ cur > 0) =>
        /\ \A i \in 1..Len(results) :
              results[i].gcode.success =>
                 outdir[OutputName(results[i].dxf_file)] =
                    [exists |-> TRUE, content |-> OwnProgram(results[i].dxf_file)]
        /\ \A i, j \in 1..Len(dxf_files) :
              dxf_files[i] # dxf_files[j] =>
                 OutputName(dxf_files[i]) # OutputName(dxf_files[j])

\* ------------------------------------------------- the values of process_order

\* the values a request may supply: the two documented ones, another
\* spelling of the first, an unknown word and the empty string
OrderValues == {"drill_first", "cut_first", "DRILL_FIRST", "both", ""}

OrderOverlays == {[process_order |-> v] : v \in OrderValues}

MaxOrderEntities == 3
OrderEntities == {Hole, Square, Label}

OrderAnalyzeEntity ==
    Len(doc) < MaxOrderEntities /\ \E e \in OrderEntities : AnalyzeStep(e)

NextOrder ==
    \/ \E np \in OrderOverlays : UpdateParams(np)
    \/ ReadFile
    \/ OrderAnalyzeEntity
    \/ AnalyzeReturn
    \/ generate_gcode([opened |-> TRUE, written |-> Len(GcodeLines)])

SpecOrder == Init /\ [][NextOrder]_vars

\* C24: whatever value process_order holds, a generated program is reported
\* as a success, has exactly one tool change and all the cycles of each kind
\* of record present and none of a kind absent, and when both kinds are
\* present every line of the drilling block comes before every line of the
\* cutting block if the value is drill_first, and after it for any other value.
C24_OrderTotal ==
    Generated =>
        /\ result.success
        /\ result.lines_count = Len(lines)
        /\ Cardinality(ToolChangeIdx(lines, DrillTool)) = (IF circles # <<>> THEN 1 ELSE 0)
        /\ Cardinality(ToolChangeIdx(lines, CutterTool)) = (IF polylines # <<>> THEN 1 ELSE 0)
        /\ Cardinality(DrillCycleStarts(lines)) = Len(circles)
        /\ Cardinality(CutCycleStarts(lines)) = Len(polylines)
        /\ DrillCycleStarts(lines) \subseteq DrillIdx(lines)
        /\ CutCycleStarts(lines) \subseteq CutIdx(lines)
        /\ (circles # <<>> /\ polylines # <<>>) =>
              IF params.process_order = "drill_first"
              THEN SetMax(DrillIdx(lines)) < SetMin(CutIdx(lines))
              ELSE SetMax(CutIdx(lines)) < SetMin(DrillIdx(lines))

\* an unrecognized value, both kinds of record present: cutting comes first
C24_Witness ==
    /\ Generated
    /\ result.success
    /\ params.process_order \notin {"drill_first", "cut_first"}
    /\ circles # <<>>
    /\ polylines # <<>>
    /\ SetMax(CutIdx(lines)) < SetMin(DrillIdx(lines))

====
